---- MODULE Spec2Model ----
(***************************************************************************)
(* A model of the Discourse moderation bot: the FastAPI application under  *)
(* src/src (routers/discourse_routes.py and the services it wires) and the *)
(* earlier single-file application src/discourse_bot.py.                   *)
(*                                                                         *)
(* Texts are sequences of one-character strings, so that startswith, split *)
(* and the substring test of the code are computed and not assumed.        *)
(* A text key missing from a dictionary is Absent, a missing id is NoneId.  *)
(* Every outbound call of a handler is appended to `calls`.                *)
(***************************************************************************)
EXTENDS Integers, Sequences, FiniteSets, TLC

VARIABLES
    app,        \* which application serves the delivery: "routes" or "bot"
    post,       \* the post object of the delivery being handled
    pc,         \* position of the request handler
    response,   \* HTTP status the handler answered with ("200", "500"; NoResponse before)
    task,       \* discourse_bot.py: state of the task made by asyncio.create_task
    calls,      \* outbound calls made for this delivery / this operation, in order
    started,    \* units of work the handler has started for this delivery
    awaited,    \* units whose completion the handler awaited before responding
    faulted,    \* units that raised out of their own body, and forum calls that
                \* reported a failure
    llm,        \* what the classifier call did for this delivery
    verdict,    \* result of the (last) check_content_appropriateness
    posts_count,      \* forum: posts_count of every topic
    projects,         \* summary service: the project store, in creation order
    idKeys,           \* summary service: id key(s) its project documents carry
    DRY_RUN_MODE,     \* settings.DRY_RUN_MODE
    lastCall,         \* the latest direct call of analyze_topic_if_needed
    projRet,          \* per topic: what the last two direct calls of
                      \* _create_or_get_project returned, <<earlier, later>>
    svcCall,          \* the latest direct call of TopicService / VectorSearchService /
                      \* ModerationService.deep_similarity_check: its inputs and result
    workers,          \* per server process: where it is in _create_or_get_project
    request,          \* the HTTP request of the delivery: whether its signature matches,
                      \* whether its body has a post, and who wrote the post
    handlers          \* per request in flight at once: the reply event it handles and
                      \* where its webhook_handler is

vars == <<app, post, pc, response, task, calls, started, awaited, faulted, llm,
          verdict, posts_count, projects, idKeys, DRY_RUN_MODE, lastCall, projRet, svcCall, workers, request,
          handlers>>

webVars == <<app, post, pc, response, task, started, awaited, faulted, llm, verdict, request,
            handlers>>

\* A text field whose key is missing from the dictionary.
Absent == <<"<absent>">>
\* An id field whose key is missing (dict.get gives None), and Python's None
\* wherever the code returns an optional integer.
NoneId == 0 - 1
NoResponse == "none"

(***************************************************************************)
(* Text helpers.                                                           *)
(***************************************************************************)
IsSpace(c) == c \in {" ", "\n"}

RECURSIVE lstrip(_)
lstrip(s) == IF s # <<>> /\ IsSpace(Head(s)) THEN lstrip(Tail(s)) ELSE s

RECURSIVE rstrip(_)
rstrip(s) ==
    IF s # <<>> /\ IsSpace(s[Len(s)]) THEN rstrip(SubSeq(s, 1, Len(s) - 1)) ELSE s

strip(s) == rstrip(lstrip(s))

lowerChar(c) ==
    CASE c = "Y" -> "y" [] c = "E" -> "e" [] c = "S" -> "s"
      [] c = "N" -> "n" [] c = "O" -> "o" [] c = "D" -> "d" [] OTHER -> c

lower(s) == [i \in 1..Len(s) |-> lowerChar(s[i])]

startswith(s, prefix) ==
    Len(s) >= Len(prefix) /\ SubSeq(s, 1, Len(prefix)) = prefix

\* str.split(): the maximal runs of non-space characters, in order.
RECURSIVE split(_)
split(s) ==
    LET t == lstrip(s) IN
    IF t = <<>> THEN <<>>
    ELSE LET n == IF \E i \in 1..Len(t) : IsSpace(t[i])
                  THEN (CHOOSE i \in 1..Len(t) :
                            IsSpace(t[i]) /\ \A j \in 1..(i - 1) : ~IsSpace(t[j])) - 1
                  ELSE Len(t)
         IN <<SubSeq(t, 1, n)>> \o split(SubSeq(t, n + 1, Len(t)))

\* ' '.join(words)
RECURSIVE join(_)
join(words) ==
    IF words = <<>> THEN <<>>
    ELSE IF Len(words) = 1 THEN words[1]
    ELSE words[1] \o <<" ">> \o join(Tail(words))

\* needle in haystack (substring test)
contains(haystack, needle) ==
    \E i \in 1..(Len(haystack) - Len(needle) + 1) :
        SubSeq(haystack, i, i + Len(needle) - 1) = needle

\* filter(str.isdigit, s) joined, then int(...): the decimal value of the digits
\* of s, NoneId when s holds no digit.
DigitValue(c) ==
    CASE c = "0" -> 0 [] c = "1" -> 1 [] c = "2" -> 2 [] c = "3" -> 3 [] c = "4" -> 4
      [] c = "5" -> 5 [] c = "6" -> 6 [] c = "7" -> 7 [] c = "8" -> 8 [] c = "9" -> 9
      [] OTHER -> NoneId

IsDigit(c) == DigitValue(c) # NoneId

RECURSIVE digitsOf(_)
digitsOf(s) ==
    IF s = <<>> THEN <<>>
    ELSE IF IsDigit(Head(s)) THEN <<Head(s)>> \o digitsOf(Tail(s)) ELSE digitsOf(Tail(s))

RECURSIVE decimal(_)
decimal(ds) ==
    IF ds = <<>> THEN 0 ELSE 10 * decimal(SubSeq(ds, 1, Len(ds) - 1)) + DigitValue(ds[Len(ds)])

\* int(s) of a stripped text: its value when s is a non-empty run of digits,
\* NoneId standing for the ValueError otherwise.
int(s) == IF s # <<>> /\ digitsOf(s) = s THEN decimal(s) ELSE NoneId

\* A variant that splits at the first separator only, as s.split(sep, 1).
splitOn_first(s, sep) ==
    IF \E i \in 1..Len(s) : s[i] = sep
    THEN LET n == CHOOSE i \in 1..Len(s) : s[i] = sep /\ \A j \in 1..(i - 1) : s[j] # sep
         IN <<SubSeq(s, 1, n - 1), SubSeq(s, n + 1, Len(s))>>
    ELSE <<s>>

\* s.split(sep) for a one-character separator
RECURSIVE splitOn(_, _)
splitOn(s, sep) ==
    IF \E i \in 1..Len(s) : s[i] = sep
    THEN LET n == CHOOSE i \in 1..Len(s) : s[i] = sep /\ \A j \in 1..(i - 1) : s[j] # sep
         IN <<SubSeq(s, 1, n - 1)>> \o splitOn(SubSeq(s, n + 1, Len(s)), sep)
    ELSE <<s>>

(***************************************************************************)
(* Program constants.                                                      *)
(***************************************************************************)
\* Stands for the Japanese sentence of settings.DELETION_MESSAGE (the same
\* sentence is DELETION_MESSAGE of discourse_bot.py).
DELETION_MESSAGE == <<"d", "e", "l", "e", "t", "e", "d">>

POSTS_THRESHOLD == 6

\* the token webhook_handler looks for in a reply to force an analysis
AISUM == <<"a", "i", "s", "u", "m">>

Call(op, id, text) == [op |-> op, id |-> id, text |-> text]

(***************************************************************************)
(* The classifier (Gemini generate_content) as the handlers see it.        *)
(***************************************************************************)
ModerationTexts ==
    { <<"Y", "E", "S", " ", "o", "k">>,
      <<" ", "y", "e", "s">>,
      <<"n", "o", " ", "s", "p", "a", "m">>,
      <<"N", "O">>,
      <<"m", "a", "y", "b", "e">>,
      <<>> }

\* "raise": generate_content raises (outage, timeout); "notext": it returns an
\* object whose .text raises; "text": it returns a response with that text.
LLMOutcomes ==
    { [kind |-> "raise", err |-> <<"timeout">>, text |-> <<>>],
      [kind |-> "raise", err |-> <<"unavailable">>, text |-> <<>>],
      [kind |-> "notext", err |-> <<"no text">>, text |-> <<>>] }
    \cup { [kind |-> "text", err |-> <<>>, text |-> t] : t \in ModerationTexts }

NoLLM == [kind |-> "none", err |-> <<>>, text |-> <<>>]

NoVerdict == [by |-> "none", is_appropriate |-> TRUE, explanation |-> <<>>, raised |-> FALSE]

\* A variant in which the except branch answers "inappropriate".
check_content_appropriateness_failclosed(content, out) ==
    IF out.kind \in {"raise", "notext"}
    THEN [by |-> "service", is_appropriate |-> FALSE,
          explanation |-> <<"Error in content appropriateness check: ">> \o out.err,
          raised |-> FALSE]
    ELSE LET response_text == lower(strip(out.text)) IN
         [by |-> "service", is_appropriate |-> startswith(response_text, <<"y", "e", "s">>),
          explanation |-> join(IF split(response_text) = <<>> THEN <<>>
                               ELSE Tail(split(response_text))),
          raised |-> FALSE]

\* ModerationService.check_content_appropriateness
check_content_appropriateness(content, out) ==
    IF out.kind \in {"raise", "notext"}
    THEN [by |-> "service", is_appropriate |-> TRUE,
          explanation |-> <<"Error in content appropriateness check: ">> \o out.err,
          raised |-> FALSE]
    ELSE LET response_text == lower(strip(out.text))
             words == split(response_text)
         IN [by |-> "service",
             is_appropriate |-> startswith(response_text, <<"y", "e", "s">>),
             explanation |-> join(IF words = <<>> THEN <<>> ELSE Tail(words)),
             raised |-> FALSE]

\* discourse_bot.py check_content_appropriateness
bot_check_content_appropriateness(content, out) ==
    IF out.kind \in {"raise", "notext"}
    THEN [by |-> "bot", is_appropriate |-> FALSE,
          explanation |-> <<"Error analyzing content: ">> \o out.err,
          raised |-> FALSE]
    ELSE LET response_text == lower(strip(out.text))
             words == split(response_text)
         IN [by |-> "bot",
             is_appropriate |-> startswith(response_text, <<"y", "e", "s">>),
             explanation |-> join(IF words = <<>> THEN <<>> ELSE Tail(words)),
             raised |-> FALSE]

(***************************************************************************)
(* discourse_bot.py: the similarity check of the single-file application.  *)
(***************************************************************************)
\* Answers of the language model to the similarity prompt of discourse_bot.py
BotSimilarityTexts ==
    { <<"D", "u", "p", "l", "i", "c", "a", "t", "e", " ", "t", "o", "p", "i", "c", " ", "1">>,
      <<"d", "u", "p", "l", "i", "c", "a", "t", "e", " ", "t", "o", "p", "i", "c", " ", "9">>,
      <<"d", "u", "p", "l", "i", "c", "a", "t", "e">>,
      <<"u", "n", "i", "q", "u", "e">> }

BotSimilarityOutcomes ==
    { [kind |-> "raise", err |-> <<"timeout">>, text |-> <<>>] }
    \cup { [kind |-> "text", err |-> <<>>, text |-> t] : t \in BotSimilarityTexts }

\* the first i with words[i] = "topic", a next word that is an integer, and
\* that integer a 1-based index into existing_topics
bot_topic_hits(words, existing_topics) ==
    { i \in 1..(Len(words) - 1) :
        /\ words[i] = <<"t", "o", "p", "i", "c">>
        /\ int(words[i + 1]) # NoneId
        /\ int(words[i + 1]) - 1 >= 0
        /\ int(words[i + 1]) - 1 < Len(existing_topics) }

\* discourse_bot.py check_topic_similarity
bot_check_topic_similarity(new_content, existing_topics, out) ==
    IF existing_topics = <<>>
    THEN [calls |-> <<>>, is_duplicate |-> FALSE, similar_topic_id |-> NoneId]
    ELSE IF out.kind = "raise"
    THEN [calls |-> <<Call("generate_content", 0, <<>>)>>,
          is_duplicate |-> FALSE, similar_topic_id |-> NoneId]
    ELSE LET response_text == lower(strip(out.text))
             is_duplicate == startswith(response_text,
                                        <<"d", "u", "p", "l", "i", "c", "a", "t", "e">>)
             words == split(response_text)
             hits == bot_topic_hits(words, existing_topics)
             first == CHOOSE i \in hits : \A j \in hits : i <= j
         IN [calls |-> <<Call("generate_content", 0, <<>>)>>,
             is_duplicate |-> is_duplicate,
             similar_topic_id |->
                 IF is_duplicate /\ hits # {}
                 THEN existing_topics[int(words[first + 1])].id
                 ELSE NoneId]

(***************************************************************************)
(* The forum as the clients see it.                                        *)
(***************************************************************************)
Topics == {10, 11}

\* a topic record of latest.json / t/{id}.json, as far as the code reads it
Topic(id) == [id |-> id]

\* what GET latest.json can answer: "fail" (the request raises) or a list
RecentOutcomes ==
    { [ok |-> FALSE, topics |-> <<>>],
      [ok |-> TRUE, topics |-> <<>>],
      [ok |-> TRUE, topics |-> <<Topic(5)>>],
      [ok |-> TRUE, topics |-> <<Topic(5), Topic(7), Topic(5)>>] }

\* The methods class DiscourseClient of src/clients/discourse_client.py defines.
\* A call of any other name on the client raises AttributeError.
DiscourseClientMethods ==
    { "create_topic", "get_categories", "delete_post", "create_reply",
      "get_recent_topics", "get_topic", "get_topic_post_count", "analyze_topic",
      "post_analysis_result" }

(***************************************************************************)
(* VectorSearchService (src/services/vector_search.py).  Scores are in     *)
(* hundredths: 85 stands for 0.85.                                         *)
(***************************************************************************)
SimilarityThreshold == 85

\* get_vector_search_config and what the constructor's try block does:
\* configured: every VERTEX_* / VECTOR_SEARCH_* setting is set; init_ok: the
\* index, the endpoint and the embedding model were obtained without raising
VectorConfigs == [configured : BOOLEAN, init_ok : BOOLEAN]

\* A variant that keeps the flag of the configuration when the constructor's
\* try block fails.
use_vector_search_as_configured(cfg) == cfg.configured

\* VectorSearchService.__init__: self.use_vector_search after construction
use_vector_search(cfg) == cfg.configured /\ cfg.init_ok

\* What the index does for one request.  enabled is use_vector_search.
VectorOutcomes ==
    { [enabled |-> FALSE, kind |-> "none", nid |-> <<>>, score |-> 0],
      [enabled |-> TRUE, kind |-> "raise_embed", nid |-> <<>>, score |-> 0],
      [enabled |-> TRUE, kind |-> "empty", nid |-> <<>>, score |-> 0],
      [enabled |-> TRUE, kind |-> "hit", nid |-> <<"5">>, score |-> 90],
      [enabled |-> TRUE, kind |-> "hit", nid |-> <<"t", "_", "7">>, score |-> 85],
      [enabled |-> TRUE, kind |-> "hit", nid |-> <<"5">>, score |-> 70] }

\* A variant of the comparison that leaves the threshold itself out.
reaches_threshold_strictly(similarity_score, threshold) == similarity_score > threshold

\* if similarity_score >= threshold
reaches_threshold(similarity_score, threshold) == similarity_score >= threshold

\* VectorSearchService.check_topic_similarity
check_topic_similarity(new_title, new_content, v) ==
    IF ~v.enabled
    THEN [calls |-> <<>>, is_duplicate |-> FALSE,
          explanation |-> <<"Vector search is not enabled">>, similar_topic_id |-> NoneId]
    ELSE IF v.kind = "raise_embed"
    THEN [calls |-> <<Call("get_embeddings", 0, <<>>)>>,
          is_duplicate |-> FALSE,
          explanation |-> <<"Error in similarity check: ", "embedding failed">>,
          similar_topic_id |-> NoneId]
    ELSE LET both == <<Call("get_embeddings", 0, <<>>), Call("find_neighbors", 0, <<>>)>> IN
         IF v.kind = "empty"
         THEN [calls |-> both, is_duplicate |-> FALSE,
               explanation |-> <<"No similar topics found">>, similar_topic_id |-> NoneId]
         ELSE IF reaches_threshold(v.score, SimilarityThreshold)
         THEN [calls |-> both, is_duplicate |-> TRUE,
               explanation |-> <<"Similar topic found with score ", ToString(v.score)>>,
               similar_topic_id |-> IF digitsOf(v.nid) # <<>>
                                    THEN decimal(digitsOf(v.nid)) ELSE NoneId]
         ELSE [calls |-> both, is_duplicate |-> FALSE,
               explanation |-> <<"No similar topics found above threshold ",
                                 ToString(SimilarityThreshold)>>,
               similar_topic_id |-> NoneId]

\* VectorSearchService.index_topic
index_topic(topic_id, title, content, v) ==
    IF ~v.enabled THEN [calls |-> <<>>, indexed |-> FALSE]
    ELSE IF v.kind = "raise_embed"
    THEN [calls |-> <<Call("get_embeddings", 0, <<>>)>>, indexed |-> FALSE]
    ELSE [calls |-> <<Call("get_embeddings", 0, <<>>),
                      Call("upsert_embeddings", topic_id, <<>>)>>,
          indexed |-> TRUE]

(***************************************************************************)
(* ModerationService.deep_similarity_check (src/services/moderation.py).   *)
(***************************************************************************)
DeepTexts ==
    { <<"y", "e", "s", " ", "|", " ", "s", "i", "m", " ", "|", " ", "5">>,
      <<"Y", "E", "S", "|", "s", "i", "m", "|", "0">>,
      <<"y", "e", "s", "|", "s", "i", "m", "|", "x">>,
      <<"n", "o", " ", "|", " ", "u", "n", "i", "q", " ", "|", " ", "0">>,
      <<"g", "a", "r", "b", "a", "g", "e">>,
      <<"y", "e", "s", "|", "5">>,
      <<"y", "e", "s", "|", "a", "|", "b", "|", "5">> }

DeepOutcomes ==
    { [kind |-> "raise", err |-> <<"timeout">>, text |-> <<>>] }
    \cup { [kind |-> "text", err |-> <<>>, text |-> t] : t \in DeepTexts }

deep_similarity_check(title, content, candidate_topics, out) ==
    IF candidate_topics = <<>>
    THEN [calls |-> <<>>, is_duplicate |-> FALSE,
          explanation |-> <<"No topics to compare">>, similar_topic_id |-> NoneId]
    ELSE LET made == <<Call("generate_content", Len(candidate_topics), <<>>)>> IN
         IF out.kind = "raise"
         THEN [calls |-> made, is_duplicate |-> FALSE,
               explanation |-> <<"Error in deep similarity check: ">> \o out.err,
               similar_topic_id |-> NoneId]
         ELSE LET parts == splitOn(strip(out.text), "|") IN
              IF Len(parts) # 3
              THEN [calls |-> made, is_duplicate |-> FALSE,
                    explanation |-> <<"Invalid response format from AI">>,
                    similar_topic_id |-> NoneId]
              ELSE LET is_duplicate == lower(strip(parts[1])) = <<"y", "e", "s">>
                       topic_id == IF is_duplicate THEN int(strip(parts[3])) ELSE NoneId
                   IN IF is_duplicate /\ topic_id = NoneId
                      THEN \* int() raised ValueError inside the try
                           [calls |-> made, is_duplicate |-> FALSE,
                            explanation |-> <<"Error in deep similarity check: ">>
                                            \o <<"invalid literal for int()">>,
                            similar_topic_id |-> NoneId]
                      ELSE [calls |-> made, is_duplicate |-> is_duplicate,
                            explanation |-> strip(parts[2]),
                            similar_topic_id |-> topic_id]

(***************************************************************************)
(* TopicService.check_topic_duplication (src/services/topic_service.py).   *)
(***************************************************************************)
\* A variant that passes the candidate list on as it is.
unique_candidates_keeping_all(candidate_topics) == candidate_topics

\* {topic['id']: topic for topic in candidate_topics}.values(): one entry per
\* id, in the order in which the ids first appear, each the last record of its id
RECURSIVE unique_candidates(_)
unique_candidates(candidate_topics) ==
    IF candidate_topics = <<>> THEN <<>>
    ELSE LET n == Len(candidate_topics)
             rest == unique_candidates(SubSeq(candidate_topics, 1, n - 1))
             last == candidate_topics[n]
         IN IF \E i \in 1..Len(rest) : rest[i].id = last.id
            THEN [i \in 1..Len(rest) |-> IF rest[i].id = last.id THEN last ELSE rest[i]]
            ELSE Append(rest, last)

\* a signal (vector or deep) that was not asked
NoSignal == [calls |-> <<>>, is_duplicate |-> FALSE, explanation |-> <<>>,
             similar_topic_id |-> NoneId]

\* A variant in which a failed follow-up fetch withdraws the verdict.
duplication_response_needing_fetch(d, positive, fetch2) ==
    IF positive /\ fetch2
    THEN [is_duplicate |-> TRUE, explanation |-> d.explanation,
          similar_topic_id |-> d.similar_topic_id]
    ELSE [is_duplicate |-> FALSE, explanation |-> <<"No similar topics found">>,
          similar_topic_id |-> NoneId]

\* check_topic_duplication, lines 72-114: the TopicSimilarityResponse it
\* returns.  d: the result of deep_similarity_check; positive: is_duplicate
\* and similar_topic_id; fetch2: whether the follow-up get_topic succeeds.
duplication_response(d, positive, fetch2) ==
    IF positive
    THEN [is_duplicate |-> TRUE, explanation |-> d.explanation,
          similar_topic_id |-> d.similar_topic_id]
    ELSE [is_duplicate |-> FALSE, explanation |-> <<"No similar topics found">>,
          similar_topic_id |-> NoneId]

\* recent: what get_recent_topics does; v: the vector index; fetch1: whether
\* get_topic of the vector match succeeds; deep: the language model; fetch2:
\* whether get_topic of the reported duplicate succeeds.
check_topic_duplication(title, content, recent, v, fetch1, deep, fetch2) ==
    LET c0 == <<Call("get_recent_topics", 0, <<>>)>> IN
    IF ~recent.ok
    THEN \* get_recent_topics raises outside any try block
         [raised |-> TRUE, calls |-> c0, pool |-> <<>>, candidates |-> <<>>,
          is_duplicate |-> FALSE, explanation |-> <<>>, similar_topic_id |-> NoneId,
          vector |-> NoSignal, deep |-> NoSignal]
    ELSE LET vec == check_topic_similarity(title, content, v)
             with_vec == vec.is_duplicate /\ vec.similar_topic_id \notin {NoneId, 0}
             c1 == IF with_vec
                   THEN <<Call("get_topic", vec.similar_topic_id, <<>>)>> ELSE <<>>
             candidate_topics ==
                 (IF with_vec /\ fetch1 THEN <<Topic(vec.similar_topic_id)>> ELSE <<>>)
                 \o recent.topics
             uniq == unique_candidates(candidate_topics)
             d == deep_similarity_check(title, content, uniq, deep)
             positive == d.is_duplicate /\ d.similar_topic_id \notin {NoneId, 0}
             c2 == IF positive
                   THEN <<Call("get_topic", d.similar_topic_id, <<>>)>>
                        \o (IF fetch2
                            THEN <<Call("send_notification", d.similar_topic_id, title)>>
                            ELSE <<>>)
                   ELSE <<>>
             resp == duplication_response(d, positive, fetch2)
         IN [raised |-> FALSE,
             calls |-> c0 \o vec.calls \o c1 \o d.calls \o c2,
             pool |-> candidate_topics,
             candidates |-> uniq,
             is_duplicate |-> resp.is_duplicate,
             explanation |-> resp.explanation,
             similar_topic_id |-> resp.similar_topic_id,
             vector |-> vec,
             deep |-> d]

\* TopicService.create_topic, line 128: if similarity_result.is_duplicate;
\* this variant also rejects on the vector signal alone
rejects_as_duplicate_on_vector(r) ==
    r.is_duplicate
    \/ (r.vector.is_duplicate /\ r.vector.similar_topic_id \notin {NoneId, 0})

\* TopicService.create_topic, line 128: if similarity_result.is_duplicate
rejects_as_duplicate(r) == r.is_duplicate

\* check_topic_duplication was not reached
NoDuplication ==
    [raised |-> FALSE, calls |-> <<>>, pool |-> <<>>, candidates |-> <<>>,
     is_duplicate |-> FALSE, explanation |-> <<>>, similar_topic_id |-> NoneId,
     vector |-> NoSignal, deep |-> NoSignal]

\* the topic id the forum gives a created topic
NewTopicId == 12

\* TopicService.create_topic.  env: what the collaborators do (llm: the
\* classifier; recent, v, fetch1, deep, fetch2: as in check_topic_duplication;
\* create: "topic" - the forum answers with a topic_id, "other" - it answers
\* without one, "raise" - the request raises).
create_topic(topic, env) ==
    LET a == check_content_appropriateness(topic.content, env.llm)
        c0 == <<Call("generate_content", 0, <<>>)>>
    IN IF ~a.is_appropriate
       THEN [status |-> "400", detail |-> <<"Inappropriate content: ">> \o a.explanation,
             calls |-> c0, checked |-> FALSE, dup |-> NoDuplication]
       ELSE LET r == check_topic_duplication(topic.title, topic.content, env.recent, env.v,
                                             env.fetch1, env.deep, env.fetch2)
                c1 == c0 \o r.calls
                c2 == c1 \o <<Call("create_topic", topic.category_id, topic.title)>>
            IN IF r.raised
               THEN [status |-> "500", detail |-> <<"Internal Server Error">>,
                     calls |-> c1, checked |-> TRUE, dup |-> r]
               ELSE IF rejects_as_duplicate(r)
               THEN [status |-> "400",
                     detail |-> <<"Similar topic found: ">> \o r.explanation
                                \o <<". Similar topic ID: ", ToString(r.similar_topic_id)>>,
                     calls |-> c1, checked |-> TRUE, dup |-> r]
               ELSE IF env.create = "raise"
               THEN [status |-> "500", detail |-> <<"Failed to create topic: ", "forum error">>,
                     calls |-> c2, checked |-> TRUE, dup |-> r]
               ELSE [status |-> "200", detail |-> <<>>,
                     calls |-> c2 \o (IF env.create = "topic"
                                      THEN index_topic(NewTopicId, topic.title,
                                                       topic.content, env.v).calls
                                      ELSE <<>>),
                     checked |-> TRUE, dup |-> r]

(***************************************************************************)
(* The two moderation handlers.                                            *)
(***************************************************************************)
\* post.get('raw', '')
raw_or_empty(p) == IF p.raw = Absent THEN <<>> ELSE p.raw

\* ModerationService.handle_moderation: notifies, deletes nothing (the delete
\* and the deletion notice are inside a string literal of the source)
handle_moderation(p, out) ==
    LET post_id == p.id
        content == raw_or_empty(p)
    IN IF post_id \in {NoneId, 0} \/ content = <<>>
       THEN [calls |-> <<>>, llm |-> NoLLM, verdict |-> NoVerdict]
       ELSE LET v == check_content_appropriateness(content, out) IN
            [calls |-> <<Call("generate_content", 0, <<>>)>>
                       \o (IF ~v.is_appropriate
                           THEN <<Call("send_notification", post_id, content)>>
                           ELSE <<>>),
             llm |-> out, verdict |-> v]

\* handle_moderation lines 253-266 with the notice posted whatever delete_post
\* returned
bot_delete_and_notify_always(p, del_ok) ==
    IF p.id = NoneId THEN <<>>
    ELSE <<Call("delete_post", p.id, <<>>)>>
         \o (IF p.topic_id # NoneId
             THEN <<Call("create_reply", p.topic_id, DELETION_MESSAGE)>>
             ELSE <<>>)

\* discourse_bot.py handle_moderation, lines 253-266: delete the post and,
\* if delete_post returned True, post the notice.  post['id'] and
\* post['topic_id'] raise KeyError when the key is missing.
bot_delete_and_notify(p, del_ok) ==
    IF p.id = NoneId THEN <<>>
    ELSE <<Call("delete_post", p.id, <<>>)>>
         \o (IF del_ok /\ p.topic_id # NoneId
             THEN <<Call("create_reply", p.topic_id, DELETION_MESSAGE)>>
             ELSE <<>>)

\* discourse_bot.py handle_moderation.  del_ok: whether delete_post succeeds
\* (it returns False otherwise); recent, sim: the similarity check's inputs.
\* A create_reply that raises ends the handler in its except branch, as the
\* last call it made.
bot_handle_moderation(p, out, del_ok, recent, sim) ==
    LET post_content == raw_or_empty(p) IN
    IF post_content = <<>>
    THEN [calls |-> <<>>, llm |-> NoLLM, verdict |-> NoVerdict, delete_failed |-> FALSE]
    ELSE LET v == bot_check_content_appropriateness(post_content, out)
             c0 == <<Call("generate_content", 0, <<>>)>>
         IN IF ~v.is_appropriate
            THEN [calls |-> c0 \o bot_delete_and_notify(p, del_ok),
                  llm |-> out, verdict |-> v,
                  delete_failed |-> (p.id # NoneId /\ ~del_ok)]
            ELSE LET recent_topics == IF recent.ok THEN recent.topics ELSE <<>>
                     r == bot_check_topic_similarity(post_content, recent_topics, sim)
                 IN [calls |-> c0 \o <<Call("get_recent_topics", 0, <<>>)>> \o r.calls
                               \o (IF r.is_duplicate
                                      /\ r.similar_topic_id \notin {NoneId, 0}
                                      /\ p.topic_id # NoneId
                                   THEN <<Call("create_reply", p.topic_id,
                                               <<"similar topic">>)>>
                                   ELSE <<>>),
                     llm |-> out, verdict |-> v, delete_failed |-> FALSE]

(***************************************************************************)
(* TopicAnalysisService (src/services/topic_analysis.py).                  *)
(***************************************************************************)
ForumOps ==
    { "get_topic_post_count", "get_topic", "get_topic_posts", "create_reply",
      "delete_post", "get_recent_topics" }

\* the collaborator calls of the analysis that can raise; "none": none does
AnalysisFailures ==
    { "none", "get_topic_post_count", "get_topic", "list_projects", "create_project",
      "bulk_import_comments", "generate_questions", "get_project_analysis",
      "get_project", "get_stance_analysis", "generate_content", "create_reply" }

\* a call on the forum client of a method the class does not define
Undefined(op) == op \in ForumOps /\ op \notin DiscourseClientMethods

\* The calls of plan, in order, up to and including the first that raises.
\* A call of an undefined method raises before anything is sent.
RECURSIVE RunPlan(_, _)
RunPlan(plan, fail) ==
    IF plan = <<>> THEN [calls |-> <<>>, ok |-> TRUE]
    ELSE IF Undefined(Head(plan).op) THEN [calls |-> <<>>, ok |-> FALSE]
    ELSE IF Head(plan).op = fail THEN [calls |-> <<Head(plan)>>, ok |-> FALSE]
    ELSE LET r == RunPlan(Tail(plan), fail)
         IN [calls |-> <<Head(plan)>> \o r.calls, ok |-> r.ok]

\* f"topic_{topic_id}"
project_name(topic_id) == <<"topic_", topic_id>>

\* The shapes of a project document of the summary service: the key(s) under
\* which it carries its id.  tests/test_topic_analysis.py uses "id".
IdKeyShapes == { {"id"}, {"_id"}, {"id", "_id"} }

\* document.get(key)
doc_get(pid, keys, key) == IF key \in keys THEN pid ELSE NoneId

NoProjectCall == [called |-> FALSE, raised |-> FALSE, id |-> NoneId, created |-> FALSE]

\* the condition of analyze_topic_if_needed without the count > 0 conjunct
should_analyze_any_multiple(current_count, force_analyze) ==
    (current_count % POSTS_THRESHOLD = 0) \/ force_analyze

\* the condition of analyze_topic_if_needed
should_analyze(current_count, force_analyze) ==
    (current_count > 0 /\ current_count % POSTS_THRESHOLD = 0) \/ force_analyze

\* TopicAnalysisService._create_or_get_project
create_or_get_project(topic_id, title, store, keys, fail) ==
    LET c0 == <<Call("list_projects", 0, <<>>)>> IN
    IF fail = "list_projects"
    THEN [calls |-> c0, store |-> store,
          ret |-> [called |-> TRUE, raised |-> TRUE, id |-> NoneId, created |-> FALSE]]
    ELSE LET found == { i \in 1..Len(store) : store[i].name = project_name(topic_id) } IN
         IF found # {}
         THEN LET i == CHOOSE i \in found : \A j \in found : i <= j IN
              [calls |-> c0, store |-> store,
               ret |-> [called |-> TRUE, raised |-> FALSE,
                        id |-> doc_get(store[i].pid, keys, "_id"), created |-> FALSE]]
         ELSE LET c1 == c0 \o <<Call("create_project", topic_id, <<>>)>> IN
              IF fail = "create_project"
              THEN [calls |-> c1, store |-> store,
                    ret |-> [called |-> TRUE, raised |-> TRUE, id |-> NoneId,
                             created |-> FALSE]]
              ELSE LET pid == Len(store) + 1 IN
                   [calls |-> c1,
                    store |-> Append(store, [name |-> project_name(topic_id), pid |-> pid]),
                    ret |-> [called |-> TRUE, raised |-> FALSE,
                             id |-> doc_get(pid, keys, "id"), created |-> TRUE]]

\* TopicAnalysisService.analyze_topic with _import_posts_to_summary
analyze_topic(topic_id, store, keys, fail) ==
    LET c0 == <<Call("get_topic", topic_id, <<>>)>> IN
    IF fail = "get_topic"
    THEN [raised |-> TRUE, calls |-> c0, store |-> store, proj |-> NoProjectCall]
    ELSE LET p == create_or_get_project(topic_id, <<"title">>, store, keys, fail) IN
         IF p.ret.raised
         THEN [raised |-> TRUE, calls |-> c0 \o p.calls, store |-> p.store, proj |-> p.ret]
         ELSE LET rest == RunPlan(<<Call("get_topic_posts", topic_id, <<>>),
                                    Call("bulk_import_comments", p.ret.id, <<>>),
                                    Call("generate_questions", p.ret.id, <<>>),
                                    Call("get_project_analysis", p.ret.id, <<"force">>)>>,
                                  fail)
              IN [raised |-> ~rest.ok, calls |-> c0 \o p.calls \o rest.calls,
                  store |-> p.store, proj |-> p.ret]

\* TopicAnalysisService.generate_post_message
generate_post_message(project_id, fail) ==
    RunPlan(<<Call("get_project", project_id, <<>>),
              Call("get_stance_analysis", project_id, <<>>),
              Call("generate_content", 0, <<"choice">>),
              Call("generate_content", 0, <<"posting">>)>>, fail)

\* TopicAnalysisService.analyze_topic_if_needed.  count is what
\* get_topic_post_count reads from the forum during the call.
analyze_topic_if_needed(topic_id, force_analyze, count, store, keys, dry, fail) ==
    LET c0 == <<Call("get_topic_post_count", topic_id, <<>>)>>
        base == [calls |-> c0, read |-> TRUE, started |-> FALSE, completed |-> FALSE,
                 store |-> store, replied |-> FALSE, proj |-> NoProjectCall]
    IN IF fail = "get_topic_post_count" THEN [base EXCEPT !.read = FALSE]
       ELSE IF ~should_analyze(count, force_analyze) THEN base
       ELSE LET a == analyze_topic(topic_id, store, keys, fail)
                begun == [base EXCEPT !.started = TRUE, !.store = a.store,
                                        !.proj = a.proj]
            IN IF a.raised THEN [begun EXCEPT !.calls = c0 \o a.calls]
               ELSE LET g == generate_post_message(a.proj.id, fail)
                        c1 == c0 \o a.calls \o g.calls
                    IN IF ~g.ok THEN [begun EXCEPT !.calls = c1]
                       ELSE IF dry
                       THEN [begun EXCEPT
                                !.completed = TRUE,
                                !.calls = c1 \o <<Call("send_notification", topic_id,
                                                       <<"[dry run]", "content">>)>>]
                       ELSE IF fail = "create_reply"
                       THEN [begun EXCEPT
                                !.completed = TRUE,
                                !.calls = c1 \o <<Call("create_reply", topic_id,
                                                       <<"content">>)>>]
                       ELSE [begun EXCEPT
                                !.completed = TRUE, !.replied = TRUE,
                                !.calls = c1 \o <<Call("create_reply", topic_id,
                                                       <<"content">>),
                                                  Call("send_notification", topic_id,
                                                       <<"content">>)>>]

(***************************************************************************)
(* Webhook deliveries.                                                     *)
(***************************************************************************)
RawTexts ==
    { <<>>, <<"h", "i">>, <<"x", "a", "i", "s", "u", "m">>, DELETION_MESSAGE }

\* the post objects a delivery can carry: every combination of the fields the
\* handlers read, present or missing
Posts ==
    [ id : {NoneId, 1},
      topic_id : {NoneId, 10},
      raw : RawTexts \cup {Absent},
      title : {Absent, <<"T">>},
      deleted_at : {"<absent>", "<None>", "2025-01-01T00:00:00Z"} ]

NoPost == [id |-> NoneId, topic_id |-> NoneId, raw |-> Absent, title |-> Absent,
           deleted_at |-> "<absent>"]

\* post.get('deleted_at') is not None
is_deleted(p) == p.deleted_at \notin {"<absent>", "<None>"}

NoCall == [called |-> FALSE, topic |-> 0, count |-> 0, force |-> FALSE,
           faultless |-> FALSE, read |-> FALSE, started |-> FALSE, completed |-> FALSE, replied |-> FALSE]

\* no request is being served
NoRequest == [signature_ok |-> TRUE, has_post |-> FALSE, origin |-> "none"]

\* the requests the server can have in flight at once
Handlers == {"h1", "h2"}

\* a slot without a request
IdleHandler == [at |-> "idle", event_count |-> 0, read |-> NoneId, analysed |-> FALSE,
                replied |-> FALSE]

\* no direct service call yet
NoSvcCall == [op |-> "none"]

\* the server processes that run the application against one project store
Workers == {"p1", "p2"}

\* a process that is not inside _create_or_get_project
IdleWorker == [at |-> "idle", topic |-> 0, listed |-> <<>>]

Idle == pc = "idle"

\* the state a new delivery starts from
Fresh(a, p) ==
    /\ app' = a
    /\ post' = p
    /\ calls' = <<>>
    /\ awaited' = {}
    /\ faulted' = {}
    /\ llm' = NoLLM
    /\ verdict' = NoVerdict

\* routes/discourse_routes.py webhook_handler: the request arrives with a body
\* whose post is a dictionary
RoutesReceive(p) ==
    /\ Idle
    /\ Fresh("routes", p)
    /\ started' = {}
    /\ pc' = "dup"
    /\ response' = NoResponse
    /\ task' = "none"
    /\ UNCHANGED <<posts_count, projects, idKeys, DRY_RUN_MODE, lastCall, projRet, svcCall, workers, request,
                   handlers>>

\* ... lines 83-87: await check_topic_duplication
RoutesDuplicateCheck ==
    /\ pc = "dup"
    /\ IF post.title # Absent /\ post.raw # Absent
       THEN \E recent \in RecentOutcomes, v \in VectorOutcomes, deep \in DeepOutcomes,
               fetch1 \in BOOLEAN, fetch2 \in BOOLEAN :
               LET r == check_topic_duplication(post.title, post.raw, recent, v,
                                                fetch1, deep, fetch2)
               IN /\ calls' = calls \o r.calls
                  /\ started' = started \cup {"duplicate"}
                  /\ IF r.raised
                     THEN /\ faulted' = faulted \cup {"duplicate"}
                          /\ response' = "500"
                          /\ pc' = "done"
                          /\ UNCHANGED awaited
                     ELSE /\ awaited' = awaited \cup {"duplicate"}
                          /\ pc' = "mod"
                          /\ UNCHANGED <<faulted, response>>
       ELSE /\ pc' = "mod"
            /\ UNCHANGED <<calls, started, awaited, faulted, response>>
    /\ UNCHANGED <<app, post, task, llm, verdict, posts_count, projects, idKeys,
                   DRY_RUN_MODE, lastCall, projRet, svcCall, workers, request,
                   handlers>>

\* ... line 90: await handle_moderation
RoutesModeration ==
    /\ pc = "mod"
    /\ \E out \in LLMOutcomes :
          LET r == handle_moderation(post, out)
          IN /\ calls' = calls \o r.calls
             /\ llm' = r.llm
             /\ verdict' = r.verdict
    /\ started' = started \cup {"moderation"}
    /\ awaited' = awaited \cup {"moderation"}
    /\ pc' = "index"
    /\ UNCHANGED <<app, post, task, response, faulted, posts_count, projects, idKeys,
                   DRY_RUN_MODE, lastCall, projRet, svcCall, workers, request,
                   handlers>>

\* ... lines 93-98: await index_topic
RoutesIndex ==
    /\ pc = "index"
    /\ IF post.topic_id # NoneId /\ post.title # Absent /\ post.raw # Absent
       THEN \E v \in VectorOutcomes :
               /\ calls' = calls \o index_topic(post.topic_id, post.title, post.raw, v).calls
               /\ started' = started \cup {"index"}
               /\ awaited' = awaited \cup {"index"}
       ELSE UNCHANGED <<calls, started, awaited>>
    /\ pc' = "analysis"
    /\ UNCHANGED <<app, post, task, response, faulted, llm, verdict, posts_count,
                   projects, idKeys, DRY_RUN_MODE, lastCall, projRet, svcCall, workers, request,
                   handlers>>

\* ... lines 101-106: await analyze_topic_if_needed
RoutesAnalysis ==
    /\ pc = "analysis"
    /\ IF post.topic_id # NoneId /\ post.title = Absent
       THEN IF post.raw = Absent
            THEN \* payload.post['raw'] raises KeyError
                 /\ response' = "500"
                 /\ pc' = "done"
                 /\ faulted' = faulted \cup {"handler"}
                 /\ UNCHANGED <<calls, started, awaited, projects, posts_count>>
            ELSE \E fail \in AnalysisFailures :
                    LET r == analyze_topic_if_needed(post.topic_id,
                                 contains(post.raw, AISUM), posts_count[post.topic_id],
                                 projects, idKeys, DRY_RUN_MODE, fail)
                    IN /\ calls' = calls \o r.calls
                       /\ projects' = r.store
                       /\ posts_count' =
                             [posts_count EXCEPT ![post.topic_id] =
                                 IF r.replied THEN @ + 1 ELSE @]
                       /\ started' = started \cup {"analysis"}
                       /\ awaited' = awaited \cup {"analysis"}
                       /\ pc' = "respond"
                       /\ UNCHANGED <<response, faulted>>
       ELSE /\ pc' = "respond"
            /\ UNCHANGED <<calls, started, awaited, projects, posts_count, response,
                           faulted>>
    /\ UNCHANGED <<app, post, task, llm, verdict, idKeys, DRY_RUN_MODE, lastCall,
                   projRet, svcCall, workers, request,
                   handlers>>

\* ... line 108: return {"status": "processing"}
RoutesRespond ==
    /\ pc = "respond"
    /\ response' = "200"
    /\ pc' = "done"
    /\ UNCHANGED <<app, post, task, calls, started, awaited, faulted, llm, verdict,
                   posts_count, projects, idKeys, DRY_RUN_MODE, lastCall, projRet, svcCall, workers, request,
                   handlers>>

\* discourse_bot.py webhook_handler for a body with a post: the filter, the
\* create_task and the 200 happen without an await in between
BotWebhookHandler(p) ==
    /\ Idle
    /\ Fresh("bot", p)
    /\ started' = IF is_deleted(p) \/ p.raw = DELETION_MESSAGE THEN {} ELSE {"moderation"}
    /\ task' = IF is_deleted(p) \/ p.raw = DELETION_MESSAGE THEN "none" ELSE "pending"
    /\ response' = "200"
    /\ pc' = "done"
    /\ UNCHANGED <<posts_count, projects, idKeys, DRY_RUN_MODE, lastCall, projRet, svcCall, workers, request,
                   handlers>>

\* discourse_bot.py: the task created for handle_moderation runs
BotModerationTask ==
    /\ task = "pending"
    /\ \E out \in LLMOutcomes, del_ok \in BOOLEAN, recent \in RecentOutcomes,
          sim \in BotSimilarityOutcomes :
          LET r == bot_handle_moderation(post, out, del_ok, recent, sim)
          IN /\ calls' = calls \o r.calls
             /\ llm' = r.llm
             /\ verdict' = r.verdict
             /\ faulted' = IF r.delete_failed THEN faulted \cup {"delete_post"}
                           ELSE faulted
    /\ task' = "done"
    /\ UNCHANGED <<app, post, pc, response, started, awaited, posts_count,
                   projects, idKeys, DRY_RUN_MODE, lastCall, projRet, svcCall, workers, request,
                   handlers>>

\* The delivery is over (the response is out and no task is left): the
\* applications keep nothing of it, and the next delivery can arrive.
NextDelivery ==
    /\ pc = "done"
    /\ task # "pending"
    /\ Fresh("none", NoPost)
    /\ started' = {}
    /\ pc' = "idle"
    /\ response' = NoResponse
    /\ task' = "none"
    /\ request' = NoRequest
    /\ UNCHANGED <<posts_count, projects, idKeys, DRY_RUN_MODE, lastCall, projRet, svcCall,
                   workers,
                   handlers>>

Init ==
    /\ app = "none"
    /\ post = NoPost
    /\ pc = "idle"
    /\ response = NoResponse
    /\ task = "none"
    /\ calls = <<>>
    /\ started = {}
    /\ awaited = {}
    /\ faulted = {}
    /\ llm = NoLLM
    /\ verdict = NoVerdict
    /\ posts_count \in { [t \in Topics |-> c] : c \in {POSTS_THRESHOLD - 1, POSTS_THRESHOLD} }
    /\ projects = <<>>
    /\ idKeys = {"id"}
    /\ DRY_RUN_MODE = FALSE
    /\ lastCall = NoCall
    /\ projRet = [t \in Topics |-> <<NoProjectCall, NoProjectCall>>]
    /\ svcCall = NoSvcCall
    /\ workers = [w \in Workers |-> IdleWorker]
    /\ request = NoRequest
    /\ handlers = [h \in Handlers |-> IdleHandler]

Next ==
    \/ \E p \in Posts : RoutesReceive(p)
    \/ RoutesDuplicateCheck
    \/ RoutesModeration
    \/ RoutesIndex
    \/ RoutesAnalysis
    \/ RoutesRespond
    \/ \E p \in Posts : BotWebhookHandler(p)
    \/ BotModerationTask
    \/ NextDelivery

Spec == Init /\ [][Next]_vars

(***************************************************************************)
(* The webhook handlers and the moderation handlers: claims C1 to C7.      *)
(***************************************************************************)
ClassifierFailed == llm.kind \in {"raise", "notext"}

\* C1: whenever the language-model call inside ModerationService's
\* check_content_appropriateness raises (outage, timeout, a response object
\* without text), the operation returns is_appropriate = true with the error
\* text as explanation, and does not raise.
C1_FailOpen ==
    (verdict.by = "service" /\ ClassifierFailed) =>
        /\ verdict.is_appropriate
        /\ verdict.explanation = <<"Error in content appropriateness check: ">> \o llm.err
        /\ ~verdict.raised

\* the service's check ran for a delivery and the classifier call timed out
C1_Witness ==
    /\ app = "routes"
    /\ pc = "index"
    /\ verdict.by = "service"
    /\ llm.kind = "raise"
    /\ post.raw = <<"h", "i">>

IsDeletionNotice(c) == c.op = "create_reply" /\ c.text = DELETION_MESSAGE

\* C2: in every moderation handler of the repository, when the classifier call
\* fails for an event's content, handling that event performs no delete_post
\* and posts no deletion notice.
C2_ClassifierFailureDeletesNothing ==
    ClassifierFailed =>
        \A i \in 1..Len(calls) : calls[i].op # "delete_post" /\ ~IsDeletionNotice(calls[i])

\* the self-event filter of the specification: the post is already deleted,
\* or its raw is the system's own deletion notice
Ignorable(p) == is_deleted(p) \/ p.raw = DELETION_MESSAGE

\* C3: for every inbound event whose post has deleted_at set, or whose raw
\* equals DELETION_MESSAGE, the webhook handler starts no moderation,
\* duplicate-check, indexing or analysis work and makes no outbound call.
C3_IgnoredEventStartsNothing ==
    (pc # "idle" /\ Ignorable(post)) => (started = {} /\ calls = <<>>)

HasRawContent(p) == p.raw \notin {Absent, <<>>}

\* C4: for every accepted event with raw content that the routes handler has
\* finished with: with a title it ran moderation and the duplicate check and
\* not the analysis-threshold check; with a topic_id and no title it ran
\* moderation and the analysis-threshold check and not the duplicate check.
C4_DispatchByTitle ==
    (app = "routes" /\ pc = "done" /\ ~Ignorable(post) /\ HasRawContent(post)) =>
        /\ post.title # Absent =>
              {"moderation", "duplicate"} \subseteq started /\ "analysis" \notin started
        /\ (post.topic_id # NoneId /\ post.title = Absent) =>
              {"moderation", "analysis"} \subseteq started /\ "duplicate" \notin started

\* C5: the webhook handler acknowledges without waiting on downstream work:
\* whenever a response has been produced, the handler awaited the completion
\* of none of the moderation, duplicate-check, indexing and analysis calls.
C5_ResponseWaitsOnNothing ==
    response # NoResponse => awaited = {}

\* C6: once the payload passed shape validation (its post is a dictionary), the
\* handler's response is 200, for every outcome of the collaborators and every
\* combination of fields in the post.
C6_Always200 ==
    response \in {NoResponse, "200"}

\* the units of work the dispatch rules select for a post
Selected(p) ==
    (IF HasRawContent(p) THEN {"moderation"} ELSE {})
    \cup (IF p.title # Absent /\ p.raw # Absent THEN {"duplicate"} ELSE {})
    \cup (IF p.topic_id # NoneId /\ p.title = Absent THEN {"analysis"} ELSE {})

\* C7: a fault in one unit of work never affects its siblings: when a unit
\* (such as the duplicate check) raised for an event, every other unit the
\* event selects has still run by the time the handler is done with it.
C7_FaultIsolation ==
    (pc = "done" /\ faulted \cap {"duplicate", "moderation", "index", "analysis"} # {}) =>
        Selected(post) \subseteq started

(***************************************************************************)
(* Direct calls of the analysis service: claims C8 and C9.                 *)
(***************************************************************************)
MaxPosts == 12

\* the topics whose replies and analysis calls this specification follows
AnalysedTopics == {10}

\* a user posts in topic t
NewPost(t) ==
    /\ posts_count[t] < MaxPosts
    /\ posts_count' = [posts_count EXCEPT ![t] = @ + 1]
    /\ UNCHANGED <<webVars, calls, projects, idKeys, DRY_RUN_MODE, lastCall, projRet, svcCall, workers>>

\* analyze_topic_if_needed(t, force) is called and returns
AnalyzeTopicIfNeeded(t, force) ==
    \E fail \in AnalysisFailures :
        LET r == analyze_topic_if_needed(t, force, posts_count[t], projects, idKeys,
                                         DRY_RUN_MODE, fail)
        IN /\ ~r.replied \/ posts_count[t] < MaxPosts
           /\ calls' = r.calls
           /\ projects' = r.store
           /\ posts_count' = [posts_count EXCEPT ![t] = IF r.replied THEN @ + 1 ELSE @]
           /\ lastCall' = [called |-> TRUE, topic |-> t, count |-> posts_count[t],
                           force |-> force, faultless |-> (fail = "none"),
                           read |-> r.read,
                           started |-> r.started, completed |-> r.completed,
                           replied |-> r.replied]
           /\ UNCHANGED <<webVars, idKeys, DRY_RUN_MODE, projRet, svcCall, workers>>

InitAnalysis ==
    /\ app = "none"
    /\ post = NoPost
    /\ pc = "idle"
    /\ response = NoResponse
    /\ task = "none"
    /\ calls = <<>>
    /\ started = {}
    /\ awaited = {}
    /\ faulted = {}
    /\ llm = NoLLM
    /\ verdict = NoVerdict
    /\ posts_count = [t \in Topics |-> 0]
    /\ projects = <<>>
    /\ idKeys = {"id"}
    /\ DRY_RUN_MODE \in BOOLEAN
    /\ lastCall = NoCall
    /\ projRet = [t \in Topics |-> <<NoProjectCall, NoProjectCall>>]
    /\ svcCall = NoSvcCall
    /\ workers = [w \in Workers |-> IdleWorker]
    /\ request = NoRequest
    /\ handlers = [h \in Handlers |-> IdleHandler]

NextAnalysis ==
    \/ \E t \in AnalysedTopics : NewPost(t)
    \/ \E t \in AnalysedTopics, force \in BOOLEAN : AnalyzeTopicIfNeeded(t, force)

SpecAnalysis == InitAnalysis /\ [][NextAnalysis]_vars

CountOf(op) == Cardinality({ i \in 1..Len(calls) : calls[i].op = op })

\* C8: analyze_topic_if_needed(topic_id, force) starts the analysis iff
\* (count > 0 and count mod POSTS_THRESHOLD = 0) or force, count being the post
\* count it read during the call; so it starts with force at every count,
\* 0 included, and decides the same at the same count; when it does not start
\* it makes no call beyond the count read: no get_topic of the analysis, no
\* project call, no reply and no notification.
C8_ThresholdTrigger ==
    (lastCall.called /\ lastCall.read) =>
        /\ lastCall.started <=>
              ((lastCall.count > 0 /\ lastCall.count % POSTS_THRESHOLD = 0)
               \/ lastCall.force)
        /\ lastCall.started =>
              (Len(calls) >= 2 /\ calls[2] = Call("get_topic", lastCall.topic, <<>>))
        /\ ~lastCall.started =>
              calls = <<Call("get_topic_post_count", lastCall.topic, <<>>)>>

\* the analysis started, unforced, at the second multiple of the threshold
C8_Witness ==
    /\ lastCall.called
    /\ lastCall.read
    /\ ~lastCall.force
    /\ lastCall.count = 2 * POSTS_THRESHOLD
    /\ lastCall.started
    /\ CountOf("get_topic") = 1

\* C9: when the analysis triggers and no collaborator call fails, so that its
\* computation completes: in dry-run mode no reply is created and the content
\* is sent to the notification sink exactly once; outside dry-run mode the
\* content is posted as a reply on the source topic and the notification is
\* sent as well.
C9_DryRunGating ==
    (lastCall.called /\ lastCall.started /\ lastCall.faultless) =>
        /\ DRY_RUN_MODE =>
              (CountOf("create_reply") = 0 /\ CountOf("send_notification") = 1)
        /\ ~DRY_RUN_MODE =>
              /\ \E i \in 1..Len(calls) :
                    calls[i] = Call("create_reply", lastCall.topic, <<"content">>)
              /\ CountOf("send_notification") = 1

(***************************************************************************)
(* Direct calls of _create_or_get_project: claim C10.                      *)
(***************************************************************************)
\* _create_or_get_project(t, title) is called and returns or raises
CreateOrGetProject(t) ==
    \E fail \in {"none", "list_projects", "create_project"} :
        LET r == create_or_get_project(t, <<"title">>, projects, idKeys, fail)
        IN /\ calls' = r.calls
           /\ projects' = r.store
           /\ projRet' = [projRet EXCEPT ![t] = <<@[2], r.ret>>]
           /\ UNCHANGED <<webVars, posts_count, idKeys, DRY_RUN_MODE, lastCall, svcCall,
                          workers>>

InitProject ==
    /\ app = "none"
    /\ post = NoPost
    /\ pc = "idle"
    /\ response = NoResponse
    /\ task = "none"
    /\ calls = <<>>
    /\ started = {}
    /\ awaited = {}
    /\ faulted = {}
    /\ llm = NoLLM
    /\ verdict = NoVerdict
    /\ posts_count = [t \in Topics |-> 0]
    /\ projects = <<>>
    /\ idKeys \in IdKeyShapes
    /\ DRY_RUN_MODE = FALSE
    /\ lastCall = NoCall
    /\ projRet = [t \in Topics |-> <<NoProjectCall, NoProjectCall>>]
    /\ svcCall = NoSvcCall
    /\ workers = [w \in Workers |-> IdleWorker]
    /\ request = NoRequest
    /\ handlers = [h \in Handlers |-> IdleHandler]

NextProject == \E t \in Topics : CreateOrGetProject(t)

SpecProject == InitProject /\ [][NextProject]_vars

Returned(r) == r.called /\ ~r.raised

\* C10: for every topic id, two calls of _create_or_get_project in sequence
\* against the same project store return the same project id, and the second
\* call creates no new project.
C10_SameProjectTwice ==
    \A t \in Topics :
        (Returned(projRet[t][1]) /\ Returned(projRet[t][2])) =>
            /\ projRet[t][1].id = projRet[t][2].id
            /\ ~projRet[t][2].created

(***************************************************************************)
(* Several server processes against one project store: claim C11.          *)
(* Inside one process list_projects and create_project are blocking calls  *)
(* with no await in between; between processes they interleave.            *)
(***************************************************************************)
MaxProjects == 4

\* _create_or_get_project, line 27: projects = self.summary_client.list_projects()
WorkerListProjects(w, t) ==
    /\ workers[w].at = "idle"
    /\ Len(projects) < MaxProjects
    /\ workers' = [workers EXCEPT ![w] = [at |-> "listed", topic |-> t, listed |-> projects]]
    /\ calls' = <<Call("list_projects", 0, <<>>)>>
    /\ UNCHANGED <<webVars, posts_count, projects, idKeys, DRY_RUN_MODE, lastCall, projRet,
                   svcCall>>

\* _create_or_get_project, lines 28-40: the lookup by name in the list it read,
\* and create_project when the name is not in it
WorkerLookupOrCreate(w) ==
    /\ workers[w].at = "listed"
    /\ LET t == workers[w].topic
           r == create_or_get_project(t, <<"title">>, workers[w].listed, idKeys, "none")
       IN /\ projects' = IF r.ret.created
                          THEN Append(projects, [name |-> project_name(t),
                                                 pid |-> Len(projects) + 1])
                          ELSE projects
          /\ calls' = Tail(r.calls)
    /\ workers' = [workers EXCEPT ![w] = IdleWorker]
    /\ UNCHANGED <<webVars, posts_count, idKeys, DRY_RUN_MODE, lastCall, projRet, svcCall>>

InitRace == InitProject /\ idKeys = {"id"}

NextRace ==
    \/ \E w \in Workers, t \in Topics : WorkerListProjects(w, t)
    \/ \E w \in Workers : WorkerLookupOrCreate(w)

SpecRace == InitRace /\ [][NextRace]_vars

ProjectsNamed(t) == { i \in 1..Len(projects) : projects[i].name = project_name(t) }

\* C11: in every reachable state of the project store there is at most one
\* project named topic_{topic_id} for each topic id, under any interleaving of
\* analysis triggers for the same topic, several server processes included.
C11_AtMostOneProjectPerTopic ==
    \A t \in Topics : Cardinality(ProjectsNamed(t)) <= 1

(***************************************************************************)
(* Direct calls of TopicService, VectorSearchService and                   *)
(* deep_similarity_check: claims C12 to C17 and C19.                       *)
(***************************************************************************)
NewTitle == <<"T">>
NewContent == <<"h", "i">>

\* what the index does for a request once the service is enabled
VectorAnswers == { v \in VectorOutcomes : v.enabled }

CandidateLists == { <<>>, <<Topic(5)>>, <<Topic(5), Topic(7)>> }

NoCaller == svcCall.op = "none"

\* check_topic_duplication(title, content) is called and returns or raises
CheckTopicDuplication ==
    /\ NoCaller
    /\ \E recent \in RecentOutcomes, v \in VectorOutcomes, deep \in DeepOutcomes,
          fetch1 \in BOOLEAN, fetch2 \in BOOLEAN :
          \E r \in { check_topic_duplication(NewTitle, NewContent, recent, v, fetch1,
                                             deep, fetch2) } :
             /\ svcCall' = [op |-> "check_topic_duplication", recent |-> recent, v |-> v,
                            fetch1 |-> fetch1, out |-> deep, fetch2 |-> fetch2, r |-> r]
             /\ calls' = r.calls
    /\ UNCHANGED <<webVars, posts_count, projects, idKeys, DRY_RUN_MODE, lastCall, projRet,
                   workers>>

\* deep_similarity_check(title, content, candidate_topics) is called and returns
DeepSimilarityCheck ==
    /\ NoCaller
    /\ \E candidate_topics \in CandidateLists, out \in DeepOutcomes :
          LET r == deep_similarity_check(NewTitle, NewContent, candidate_topics, out)
          IN /\ svcCall' = [op |-> "deep_similarity_check",
                            candidate_topics |-> candidate_topics, out |-> out, r |-> r]
             /\ calls' = r.calls
    /\ UNCHANGED <<webVars, posts_count, projects, idKeys, DRY_RUN_MODE, lastCall, projRet,
                   workers>>

\* a VectorSearchService is constructed and check_topic_similarity is called
VectorCheckTopicSimilarity ==
    /\ NoCaller
    /\ \E cfg \in VectorConfigs, e \in VectorAnswers :
          LET v == [e EXCEPT !.enabled = use_vector_search(cfg)]
              r == check_topic_similarity(NewTitle, NewContent, v)
          IN /\ svcCall' = [op |-> "check_topic_similarity", cfg |-> cfg, v |-> e, r |-> r]
             /\ calls' = r.calls
    /\ UNCHANGED <<webVars, posts_count, projects, idKeys, DRY_RUN_MODE, lastCall, projRet,
                   workers>>

\* a VectorSearchService is constructed and index_topic is called
VectorIndexTopic ==
    /\ NoCaller
    /\ \E cfg \in VectorConfigs, e \in VectorAnswers, t \in Topics :
          LET v == [e EXCEPT !.enabled = use_vector_search(cfg)]
              r == index_topic(t, NewTitle, NewContent, v)
          IN /\ svcCall' = [op |-> "index_topic", cfg |-> cfg, v |-> e, r |-> r]
             /\ calls' = r.calls
    /\ UNCHANGED <<webVars, posts_count, projects, idKeys, DRY_RUN_MODE, lastCall, projRet,
                   workers>>

\* what the collaborators of create_topic can do: the classifier raises or
\* answers "NO" / " yes"; the forum fails, or lists no or one recent topic;
\* the comparison raises or answers one of its yes / no / unparsable texts
CreateTopicEnvs ==
    [ llm : { o \in LLMOutcomes : o.kind = "raise" \/ Len(o.text) \in {2, 4} },
      recent : { o \in RecentOutcomes : Len(o.topics) <= 1 },
      v : VectorOutcomes,
      fetch1 : BOOLEAN,
      deep : { o \in DeepOutcomes : o.kind = "raise" \/ Len(o.text) \in {7, 9, 13} },
      fetch2 : BOOLEAN,
      create : {"topic", "other", "raise"} ]

\* create_topic(topic) is called and returns or raises
CreateTopic ==
    /\ NoCaller
    /\ \E env \in CreateTopicEnvs :
          \E r \in { create_topic([title |-> NewTitle, content |-> NewContent,
                                   category_id |-> 1], env) } :
             /\ svcCall' = [op |-> "create_topic", env |-> env, r |-> r]
             /\ calls' = r.calls
    /\ UNCHANGED <<webVars, posts_count, projects, idKeys, DRY_RUN_MODE, lastCall, projRet,
                   workers>>

\* the caller has the result; the next call can be made
ServiceReturn ==
    /\ ~NoCaller
    /\ svcCall' = NoSvcCall
    /\ calls' = <<>>
    /\ UNCHANGED <<webVars, posts_count, projects, idKeys, DRY_RUN_MODE, lastCall, projRet,
                   workers>>

InitServices == InitProject /\ idKeys = {"id"}

NextServices ==
    \/ CheckTopicDuplication
    \/ DeepSimilarityCheck
    \/ VectorCheckTopicSimilarity
    \/ VectorIndexTopic
    \/ CreateTopic
    \/ ServiceReturn

SpecServices == InitServices /\ [][NextServices]_vars

IsDuplicationCall == svcCall.op = "check_topic_duplication" /\ ~svcCall.r.raised

Ids(topics) == { topics[i].id : i \in 1..Len(topics) }

\* the vector match check_topic_duplication fetched and put among the candidates
FetchedVectorMatch ==
    IF /\ svcCall.r.vector.is_duplicate
       /\ svcCall.r.vector.similar_topic_id \notin {NoneId, 0}
       /\ svcCall.fetch1
    THEN {svcCall.r.vector.similar_topic_id}
    ELSE {}

\* C12: for every recent-topics list and every vector-signal result, the
\* candidate list check_topic_duplication passes to deep_similarity_check holds
\* no two entries with the same id, also when the vector match is in the
\* recent-topics list and when that list repeats an id; and every id of the
\* inputs (the recent topics and the fetched vector match) is represented.
C12_CandidatesUnique ==
    IsDuplicationCall =>
        LET c == svcCall.r.candidates IN
        /\ \A i, j \in 1..Len(c) : c[i].id = c[j].id => i = j
        /\ Ids(c) = Ids(svcCall.recent.topics) \cup FetchedVectorMatch

\* the vector match 5 is also a recent topic, and the recent list repeats 5
C12_Witness ==
    /\ IsDuplicationCall
    /\ svcCall.recent.topics = <<Topic(5), Topic(7), Topic(5)>>
    /\ FetchedVectorMatch = {5}
    /\ Len(svcCall.r.candidates) = 2

SameVerdict(a, b) ==
    /\ a.is_duplicate = b.is_duplicate
    /\ a.explanation = b.explanation
    /\ a.similar_topic_id = b.similar_topic_id

\* C13: check_topic_duplication returns the deep-LLM signal's verdict
\* (duplicate flag, explanation, topic id) whenever the deep-LLM call succeeds,
\* and the vector signal's verdict when the deep-LLM call itself fails.
C13_DeepVerdictOrVectorFallback ==
    (IsDuplicationCall /\ svcCall.r.candidates # <<>>) =>
        IF svcCall.out.kind = "text"
        THEN SameVerdict(svcCall.r, svcCall.r.deep)
        ELSE SameVerdict(svcCall.r, svcCall.r.vector)

Bars(s) == { i \in 1..Len(s) : s[i] = "|" }

\* the three fields of a text with exactly two '|'
FieldsOf(s) ==
    LET i1 == CHOOSE i \in Bars(s) : \A j \in Bars(s) : i <= j
        i2 == CHOOSE i \in Bars(s) : \A j \in Bars(s) : i >= j
    IN <<SubSeq(s, 1, i1 - 1), SubSeq(s, i1 + 1, i2 - 1), SubSeq(s, i2 + 1, Len(s))>>

IsDeepCall ==
    /\ svcCall.op = "deep_similarity_check"
    /\ svcCall.candidate_topics # <<>>
    /\ svcCall.out.kind = "text"

Verdict(is_duplicate, explanation, similar_topic_id) ==
    [is_duplicate |-> is_duplicate, explanation |-> explanation,
     similar_topic_id |-> similar_topic_id]

\* C14: deep_similarity_check maps a response of exactly three '|'-separated
\* fields whose first field is yes to (true, explanation, the integer of the
\* third field), a three-field response whose first field is no to (false,
\* explanation, None), and a response with another field count to (false,
\* "Invalid response format from AI", None); it returns for every response
\* text, and returns is_duplicate = true only for a response it parsed fully.
C14_DeepResponseParsing ==
    IsDeepCall =>
        LET t == svcCall.out.text
            r == svcCall.r
        IN IF Cardinality(Bars(t)) # 2
           THEN SameVerdict(r, Verdict(FALSE, <<"Invalid response format from AI">>, NoneId))
           ELSE LET f == FieldsOf(t)
                    first == lower(strip(f[1]))
                    id == int(strip(f[3]))
                IN /\ (first = <<"y", "e", "s">> /\ id # NoneId) =>
                          SameVerdict(r, Verdict(TRUE, strip(f[2]), id))
                   /\ first = <<"n", "o">> =>
                          SameVerdict(r, Verdict(FALSE, strip(f[2]), NoneId))
                   /\ r.is_duplicate => (first = <<"y", "e", "s">> /\ id # NoneId)

\* "yes | sim | 5" was answered for a non-empty candidate list
C14_Witness ==
    /\ IsDeepCall
    /\ Cardinality(Bars(svcCall.out.text)) = 2
    /\ svcCall.r.is_duplicate
    /\ svcCall.r.similar_topic_id = 5
    /\ svcCall.r.explanation = <<"s", "i", "m">>

IsVectorCheck == svcCall.op = "check_topic_similarity"

\* C15: with the vector index configured, check_topic_similarity reports
\* duplicate = true together with the top neighbour's numeric id iff the top
\* neighbour's score is >= the threshold (0.85), and duplicate = false with no
\* id when the score is below the threshold or there is no neighbour.
C15_VectorThreshold ==
    (IsVectorCheck /\ svcCall.cfg.configured /\ svcCall.cfg.init_ok) =>
        /\ svcCall.v.kind = "hit" =>
              /\ svcCall.r.is_duplicate <=> svcCall.v.score >= SimilarityThreshold
              /\ svcCall.r.is_duplicate =>
                    svcCall.r.similar_topic_id = decimal(digitsOf(svcCall.v.nid))
              /\ ~svcCall.r.is_duplicate => svcCall.r.similar_topic_id = NoneId
        /\ svcCall.v.kind = "empty" =>
              (~svcCall.r.is_duplicate /\ svcCall.r.similar_topic_id = NoneId)

\* the top neighbour's score is exactly the threshold
C15_Witness ==
    /\ IsVectorCheck
    /\ svcCall.cfg.configured /\ svcCall.cfg.init_ok
    /\ svcCall.v.kind = "hit"
    /\ svcCall.v.score = SimilarityThreshold
    /\ svcCall.r.is_duplicate
    /\ svcCall.r.similar_topic_id = 7

\* C16: when the vector index is not configured, or its initialisation
\* failed, check_topic_similarity returns is_duplicate = false with the fixed
\* explanation and no id for every input, index_topic returns false, and
\* neither calls the embedding or the index collaborator.
C16_DisabledIndexDegrades ==
    (svcCall.op \in {"check_topic_similarity", "index_topic"}
     /\ ~(svcCall.cfg.configured /\ svcCall.cfg.init_ok)) =>
        /\ calls = <<>>
        /\ svcCall.r.calls = <<>>
        /\ IsVectorCheck =>
              SameVerdict(svcCall.r,
                          Verdict(FALSE, <<"Vector search is not enabled">>, NoneId))
        /\ svcCall.op = "index_topic" => ~svcCall.r.indexed

\* the index is configured, its initialisation failed, and the index would
\* have answered with a neighbour above the threshold
C16_Witness ==
    /\ IsVectorCheck
    /\ svcCall.cfg.configured /\ ~svcCall.cfg.init_ok
    /\ svcCall.v.kind = "hit" /\ svcCall.v.score > SimilarityThreshold
    /\ ~svcCall.r.is_duplicate

DeepPositive ==
    svcCall.r.deep.is_duplicate /\ svcCall.r.deep.similar_topic_id \notin {NoneId, 0}

\* C17: when the duplicate verdict is positive with a topic id and the
\* follow-up fetch of the existing topic fails, check_topic_duplication still
\* returns is_duplicate = true with the same explanation and the same
\* similar_topic_id.
C17_VerdictSurvivesFetchFailure ==
    (IsDuplicationCall /\ DeepPositive /\ ~svcCall.fetch2) =>
        /\ svcCall.r.is_duplicate
        /\ SameVerdict(svcCall.r, svcCall.r.deep)

\* the deep check named topic 5 and the follow-up get_topic(5) failed: no
\* notification went out
C17_Witness ==
    /\ IsDuplicationCall /\ DeepPositive /\ ~svcCall.fetch2
    /\ svcCall.r.similar_topic_id = 5
    /\ \A i \in 1..Len(calls) : calls[i].op # "send_notification"
    /\ \E i \in 1..Len(calls) : calls[i] = Call("get_topic", 5, <<>>)

\* create_topic reached its duplicate check, which returned
IsCreateTopicChecked ==
    svcCall.op = "create_topic" /\ svcCall.r.checked /\ ~svcCall.r.dup.raised

VectorPositive ==
    /\ svcCall.r.dup.vector.is_duplicate
    /\ svcCall.r.dup.vector.similar_topic_id \notin {NoneId, 0}

RejectedAsSimilar ==
    /\ svcCall.r.status = "400"
    /\ svcCall.r.detail[1] = "Similar topic found: "
    /\ \A i \in 1..Len(calls) : calls[i].op # "create_topic"

JudgedInappropriate ==
    /\ verdict.by # "none"
    /\ llm.kind = "text"
    /\ ~verdict.is_appropriate

\* C18: for every post with an id, a topic_id and raw content that the
\* classifier judges inappropriate, handle_moderation calls delete_post exactly
\* once with the post's id and create_reply exactly once on the post's topic
\* with the deletion notice DELETION_MESSAGE.
C18_InappropriateDeletedAndNoticed ==
    (JudgedInappropriate /\ post.id # NoneId /\ post.topic_id # NoneId
     /\ HasRawContent(post)) =>
        /\ Cardinality({ i \in 1..Len(calls) :
                            calls[i] = Call("delete_post", post.id, <<>>) }) = 1
        /\ CountOf("delete_post") = 1
        /\ Cardinality({ i \in 1..Len(calls) :
                            calls[i] = Call("create_reply", post.topic_id,
                                            DELETION_MESSAGE) }) = 1

\* the latest call of analyze_topic_if_needed ended in its except branch
AnalysisRaised ==
    lastCall.called /\ (~lastCall.read \/ (lastCall.started /\ ~lastCall.completed))

\* C20: when any step of analyze_topic_if_needed raises (for example the read
\* of the topic's post count), the operation sends exactly one notification to
\* the sink, reporting the error.
C20_ErrorNotifiesOnce ==
    AnalysisRaised => CountOf("send_notification") = 1

(***************************************************************************)
(* The analysis pipeline: claim C21.                                       *)
(***************************************************************************)
\* the four steps of analyze_topic, by the call that carries each of them out
PipelineSteps ==
    <<{"list_projects"}, {"bulk_import_comments"}, {"generate_questions"},
      {"get_project_analysis"}>>

IsStepCall(c) == \E k \in 1..Len(PipelineSteps) : c.op \in PipelineSteps[k]

\* the steps the last call of analyze_topic carried out, in the order of the
\* calls
StepsTaken ==
    LET IsStep(c) == IsStepCall(c)
        s == SelectSeq(calls, IsStep)
    IN [i \in 1..Len(s) |-> s[i].op]

\* C21: on every trigger where all collaborators respond, analyze_topic
\* performs, in this order, the create-or-fetch of the project, the import of
\* the posts as comments, the question generation and the forced full project
\* analysis, and the analysis completes.
C21_PipelineInOrder ==
    (lastCall.called /\ lastCall.started /\ lastCall.faultless) =>
        /\ StepsTaken = <<"list_projects", "bulk_import_comments", "generate_questions",
                          "get_project_analysis">>
        /\ lastCall.completed

(***************************************************************************)
(* SlackClient (src/clients/slack_client.py): claims C24 and C30.          *)
(***************************************************************************)
\* self.max_message_length as __init__ sets it
max_message_length == 3000

\* '\n'.join(parts)
RECURSIVE join_lines(_)
join_lines(parts) ==
    IF parts = <<>> THEN <<>>
    ELSE IF Len(parts) = 1 THEN parts[1]
    ELSE parts[1] \o <<"\n">> \o join_lines(Tail(parts))

\* the for loop of _split_message over the lines still to come; an empty
\* current_message is falsy
RECURSIVE split_lines(_, _, _, _)
split_lines(lines, messages, current_message, limit) ==
    IF lines = <<>>
    THEN IF current_message # <<>> THEN Append(messages, current_message) ELSE messages
    ELSE LET line == Head(lines) IN
         IF Len(current_message) + Len(line) + 1 > limit
         THEN split_lines(Tail(lines), Append(messages, current_message), line, limit)
         ELSE split_lines(Tail(lines), messages,
                          IF current_message # <<>>
                          THEN current_message \o <<"\n">> \o line ELSE line,
                          limit)

\* SlackClient._split_message of a client whose max_message_length is limit
split_message(message, limit) ==
    IF Len(message) <= limit THEN <<message>>
    ELSE split_lines(splitOn(message, "\n"), <<>>, <<>>, limit)

\* the longest message the specification splits
MaxMessageLen == 5

\* the messages: every text of letters and line breaks up to that length
Messages == UNION { [1..n -> {"a", "\n"}] : n \in 0..MaxMessageLen }

\* the limits of the clients: two small ones, and the one __init__ sets
MessageLimits == {2, 3, max_message_length}

\* _split_message(message) is called on a client and returns
SplitMessage ==
    /\ NoCaller
    /\ \E message \in Messages, limit \in MessageLimits :
          svcCall' = [op |-> "_split_message", message |-> message, limit |-> limit,
                      r |-> split_message(message, limit)]
    /\ calls' = <<>>
    /\ UNCHANGED <<webVars, posts_count, projects, idKeys, DRY_RUN_MODE, lastCall, projRet,
                   workers>>

NextSlack == SplitMessage \/ ServiceReturn

SpecSlack == InitServices /\ [][NextSlack]_vars

IsSplitOfLong == svcCall.op = "_split_message" /\ Len(svcCall.message) > svcCall.limit

\* C24: for every message longer than the limit, the chunks _split_message
\* returns, joined with newlines, reproduce the message exactly.
C24_SplitRoundTrip ==
    IsSplitOfLong => join_lines(svcCall.r) = svcCall.message

\* C30: every chunk _split_message returns is non-empty and no longer than
\* max_message_length, for every message longer than the limit.
C30_ChunksWithinLimit ==
    IsSplitOfLong =>
        \A i \in 1..Len(svcCall.r) :
            svcCall.r[i] # <<>> /\ Len(svcCall.r[i]) <= svcCall.limit

(***************************************************************************)
(* discourse_bot.py handle_moderation after a verdict of inappropriate:    *)
(* claim C29.                                                              *)
(***************************************************************************)
\* the task of discourse_bot.py ran handle_moderation and the check judged
\* the post inappropriate
BotFoundInappropriate ==
    app = "bot" /\ task = "done" /\ verdict.by = "bot" /\ ~verdict.is_appropriate

\* C29: in discourse_bot.py handle_moderation, the deletion notice is posted
\* only after delete_post was called and returned success; when the deletion
\* fails no reply is posted; and in both cases the similarity check and the
\* similar-topic reply are skipped.
C29_NoticeOnlyAfterDeletion ==
    BotFoundInappropriate =>
        /\ \A i \in 1..Len(calls) :
              IsDeletionNotice(calls[i]) =>
                  /\ "delete_post" \notin faulted
                  /\ \E j \in 1..(i - 1) : calls[j] = Call("delete_post", post.id, <<>>)
        /\ "delete_post" \in faulted => CountOf("create_reply") = 0
        /\ CountOf("get_recent_topics") = 0
        /\ \A i \in 1..Len(calls) :
              calls[i].op = "create_reply" => calls[i].text = DELETION_MESSAGE

\* the post of a topic was judged inappropriate and its deletion failed
C29_Witness ==
    /\ BotFoundInappropriate
    /\ post.topic_id # NoneId
    /\ CountOf("delete_post") = 1
    /\ "delete_post" \in faulted

(***************************************************************************)
(* The HTTP requests of the webhook endpoints: claims C22, C23 and C25.    *)
(***************************************************************************)
\* the answer of FastAPI's validation of WebhookPayload to a body that lacks
\* the post field: status 422, detail type "missing", loc ["body", "post"]
MissingPost422 == "422 missing body.post"

\* the posts the requests carry: the opening post of a topic, and a reply
RequestPosts ==
    { p \in Posts : p.id = 1 /\ p.topic_id = 10 /\ p.raw = <<"h", "i">>
                    /\ p.deleted_at = "<None>" }

\* the requests the forum and other senders make.  signature_ok: whether the
\* X-Discourse-Event-Signature header is the HMAC-SHA256 of the body under the
\* shared secret; has_post: whether the JSON body has the post field.
Requests == [signature_ok : BOOLEAN, has_post : BOOLEAN, origin : {"user"}]

\* routers/discourse_routes.py: POST /webhook.  FastAPI validates the body
\* against WebhookPayload before webhook_handler is entered; no header is read.
RoutesRequest(req, p) ==
    /\ Idle
    /\ request' = req
    /\ started' = {}
    /\ task' = "none"
    /\ IF req.has_post
       THEN /\ Fresh("routes", p)
            /\ pc' = "dup"
            /\ response' = NoResponse
       ELSE /\ Fresh("routes", NoPost)
            /\ pc' = "done"
            /\ response' = MissingPost422
    /\ UNCHANGED <<posts_count, projects, idKeys, DRY_RUN_MODE, lastCall, projRet, svcCall,
                   workers,
                   handlers>>

\* discourse_bot.py: POST /.  webhook_handler, lines 312-357: the body is
\* parsed, a body without post is "not a post event"; no header is read.
BotRequest(req, p) ==
    /\ Idle
    /\ request' = req
    /\ response' = "200"
    /\ pc' = "done"
    /\ IF req.has_post
       THEN /\ Fresh("bot", p)
            /\ started' = IF is_deleted(p) \/ p.raw = DELETION_MESSAGE THEN {}
                          ELSE {"moderation"}
            /\ task' = IF is_deleted(p) \/ p.raw = DELETION_MESSAGE THEN "none"
                       ELSE "pending"
       ELSE /\ Fresh("bot", NoPost)
            /\ started' = {}
            /\ task' = "none"
    /\ UNCHANGED <<posts_count, projects, idKeys, DRY_RUN_MODE, lastCall, projRet, svcCall,
                   workers,
                   handlers>>

IsForumWrite(c) == c.op \in {"delete_post", "create_reply"}

\* the post the forum makes of a reply the bot wrote with create_reply
OwnPost(c) ==
    [id |-> 1, topic_id |-> c.id, raw |-> c.text, title |-> Absent, deleted_at |-> "<None>"]

\* The forum delivers the webhook of a reply that discourse_bot.py posted
\* while it handled the previous delivery; webhook_handler handles it as any
\* other post.
BotOwnReplyDelivered ==
    /\ app = "bot"
    /\ pc = "done"
    /\ task = "done"
    /\ \E i \in 1..Len(calls) :
          /\ calls[i].op = "create_reply"
          /\ LET p == OwnPost(calls[i]) IN
             /\ Fresh("bot", p)
             /\ started' = IF is_deleted(p) \/ p.raw = DELETION_MESSAGE THEN {}
                           ELSE {"moderation"}
             /\ task' = IF is_deleted(p) \/ p.raw = DELETION_MESSAGE THEN "none"
                        ELSE "pending"
    /\ request' = [signature_ok |-> TRUE, has_post |-> TRUE, origin |-> "bot"]
    /\ response' = "200"
    /\ pc' = "done"
    /\ UNCHANGED <<posts_count, projects, idKeys, DRY_RUN_MODE, lastCall, projRet, svcCall,
                   workers,
                   handlers>>

NextRequest ==
    \/ \E req \in Requests, p \in RequestPosts : RoutesRequest(req, p)
    \/ \E req \in Requests, p \in RequestPosts : BotRequest(req, p)
    \/ RoutesDuplicateCheck
    \/ RoutesModeration
    \/ RoutesIndex
    \/ RoutesAnalysis
    \/ RoutesRespond
    \/ BotModerationTask
    \/ BotOwnReplyDelivered
    \/ NextDelivery

SpecRequest == Init /\ [][NextRequest]_vars

\* C22: a webhook request whose signature does not match is rejected with
\* status 403 and starts no moderation, duplicate-check, indexing or analysis
\* work.
C22_BadSignatureRejected ==
    (request.origin = "user" /\ ~request.signature_ok) =>
        /\ started = {}
        /\ calls = <<>>
        /\ pc = "done" => response = "403"

\* C23: a webhook request whose JSON body has no post field is answered with
\* the 422 validation error naming the missing body field post, and no
\* downstream work is started for it.
C23_MissingPostIs422 ==
    (request.origin = "user" /\ request.signature_ok /\ ~request.has_post /\ pc = "done") =>
        /\ response = MissingPost422
        /\ started = {}
        /\ calls = <<>>

\* C25: a reply the bot itself posted, delivered back to the webhook as a new
\* event, never causes the bot to delete or post again.
C25_OwnReplyCausesNoWrite ==
    request.origin = "bot" => \A i \in 1..Len(calls) : ~IsForumWrite(calls[i])

(***************************************************************************)
(* The duplicate check of a topic-creation event: claim C28.               *)
(***************************************************************************)
\* the topics whose creation events are delivered
EventTopics == {5, 10}

\* what get_recent_topics answers once topic T exists: latest.json lists the
\* newest topic first, T itself included; or the request raises
RecentOutcomesWith(T) ==
    { IF o.ok THEN [ok |-> TRUE, topics |-> <<Topic(T)>> \o o.topics] ELSE o :
        o \in RecentOutcomes }

\* routers/discourse_routes.py webhook_handler, lines 83-87, for the event of
\* the creation of topic T: check_topic_duplication gets the title and the
\* raw of the post, and not T
TopicEventDuplicateCheck(T) ==
    /\ NoCaller
    /\ \E recent \in RecentOutcomesWith(T), v \in VectorOutcomes, deep \in DeepOutcomes,
          fetch1 \in BOOLEAN, fetch2 \in BOOLEAN :
          \E r \in { check_topic_duplication(NewTitle, NewContent, recent, v, fetch1,
                                             deep, fetch2) } :
             /\ svcCall' = [op |-> "webhook_duplicate_check", topic_id |-> T,
                            recent |-> recent, v |-> v, fetch1 |-> fetch1, out |-> deep,
                            fetch2 |-> fetch2, r |-> r]
             /\ calls' = r.calls
    /\ UNCHANGED <<webVars, posts_count, projects, idKeys, DRY_RUN_MODE, lastCall, projRet,
                   workers>>

NextTopicEvent ==
    \/ \E T \in EventTopics : TopicEventDuplicateCheck(T)
    \/ ServiceReturn

SpecTopicEvent == InitServices /\ [][NextTopicEvent]_vars

\* C28: for a topic-creation event with topic_id T, the candidate list passed
\* to deep_similarity_check never contains T, and the reported
\* similar_topic_id is never T.
C28_NotDuplicateOfItself ==
    (svcCall.op = "webhook_duplicate_check" /\ ~svcCall.r.raised) =>
        /\ svcCall.topic_id \notin Ids(svcCall.r.candidates)
        /\ svcCall.r.similar_topic_id # svcCall.topic_id

(***************************************************************************)
(* Reply events of one topic handled concurrently: claims C26 and C27.     *)
(* webhook_handler suspends at every await, so a second request is served, *)
(* and further replies are posted, between the steps of the first.         *)
(***************************************************************************)
\* the topic the replies go to
RepliedTopic == 10

\* A user posts a reply; the forum sends its webhook and a free slot of the
\* server starts webhook_handler for it (lines 72-98 pass before the
\* threshold check).  event_count: the post count this reply brought about.
ReplyDelivered(h) ==
    /\ handlers[h].at = "idle"
    /\ posts_count[RepliedTopic] < MaxPosts
    /\ posts_count' = [posts_count EXCEPT ![RepliedTopic] = @ + 1]
    /\ handlers' = [handlers EXCEPT ![h] =
                       [IdleHandler EXCEPT !.at = "received",
                                           !.event_count = posts_count[RepliedTopic] + 1]]
    /\ UNCHANGED <<app, post, pc, response, task, started, awaited, faulted, llm, verdict,
                   request, calls, projects, idKeys, DRY_RUN_MODE, lastCall, projRet, svcCall,
                   workers>>

\* the forum delivers the event that slot g handles once more
Redelivered(h, g) ==
    /\ handlers[h].at = "idle"
    /\ handlers[g].at # "idle"
    /\ handlers' = [handlers EXCEPT ![h] =
                       [IdleHandler EXCEPT !.at = "received",
                                           !.event_count = handlers[g].event_count]]
    /\ UNCHANGED <<app, post, pc, response, task, started, awaited, faulted, llm, verdict,
                   request, calls, posts_count, projects, idKeys, DRY_RUN_MODE, lastCall,
                   projRet, svcCall, workers>>

\* analyze_topic_if_needed, line 101: get_topic_post_count answers with the
\* count of this moment, or raises into the except branch of line 135
HandlerReadCount(h) ==
    /\ handlers[h].at = "received"
    /\ \E ok \in BOOLEAN :
          /\ handlers' = [handlers EXCEPT ![h].at = IF ok THEN "read" ELSE "done",
                                          ![h].read = IF ok THEN posts_count[RepliedTopic]
                                                      ELSE NoneId]
          /\ calls' = <<Call("get_topic_post_count", RepliedTopic, <<>>)>>
    /\ UNCHANGED <<app, post, pc, response, task, started, awaited, faulted, llm, verdict,
                   request, posts_count, projects, idKeys, DRY_RUN_MODE, lastCall, projRet,
                   svcCall, workers>>

\* analyze_topic_if_needed, lines 104-143, with the count that was read
HandlerAnalyze(h) ==
    /\ handlers[h].at = "read"
    /\ \E fail \in AnalysisFailures \ {"get_topic_post_count"} :
          \E r \in { analyze_topic_if_needed(RepliedTopic, FALSE, handlers[h].read,
                                             projects, idKeys, DRY_RUN_MODE, fail) } :
             /\ ~r.replied \/ posts_count[RepliedTopic] < MaxPosts
             /\ calls' = r.calls
             /\ projects' = r.store
             /\ posts_count' = [posts_count EXCEPT ![RepliedTopic] =
                                   IF r.replied THEN @ + 1 ELSE @]
             /\ handlers' = [handlers EXCEPT ![h].at = "done",
                                             ![h].analysed = r.started,
                                             ![h].replied = r.replied]
    /\ UNCHANGED <<app, post, pc, response, task, started, awaited, faulted, llm, verdict,
                   request, idKeys, DRY_RUN_MODE, lastCall, projRet, svcCall, workers>>

\* line 108: the handler returns and the slot is free again
HandlerReturn(h) ==
    /\ handlers[h].at = "done"
    /\ handlers' = [handlers EXCEPT ![h] = IdleHandler]
    /\ calls' = <<>>
    /\ UNCHANGED <<app, post, pc, response, task, started, awaited, faulted, llm, verdict,
                   request, posts_count, projects, idKeys, DRY_RUN_MODE, lastCall, projRet,
                   svcCall, workers>>

NextConcurrent ==
    \/ \E h \in Handlers : ReplyDelivered(h)
    \/ \E h \in Handlers : \E g \in Handlers \ {h} : Redelivered(h, g)
    \/ \E h \in Handlers : HandlerReadCount(h)
    \/ \E h \in Handlers : HandlerAnalyze(h)
    \/ \E h \in Handlers : HandlerReturn(h)

SpecConcurrent == InitAnalysis /\ [][NextConcurrent]_vars

IsPositiveMultiple(n) == n > 0 /\ n % POSTS_THRESHOLD = 0

\* C26: whenever a reply brings the topic's post count to a positive multiple
\* of POSTS_THRESHOLD and that reply's webhook is delivered and handled (the
\* count being readable), an analysis is triggered for the topic, whatever
\* further replies were posted before the handler read the count.
C26_MultipleAlwaysTriggers ==
    \A h \in Handlers :
        (handlers[h].at = "done" /\ handlers[h].read # NoneId
         /\ IsPositiveMultiple(handlers[h].event_count)) => handlers[h].analysed

\* C27: for each value of the topic's post count that is a multiple of
\* POSTS_THRESHOLD, at most one analysis is run, even when several handlers
\* read the same count.
C27_OneAnalysisPerMultiple ==
    \A h \in Handlers : \A g \in Handlers \ {h} :
        ~ /\ handlers[h].analysed
          /\ handlers[g].analysed
          /\ handlers[h].read = handlers[g].read

====
